---- MODULE Spec2Model ----
(***************************************************************************)
(* Model of the wallet FFI boundary in                                     *)
(* packages/wallet/native/wallet-ffi/src/lib.rs: the thread-local          *)
(* LAST_ERROR slot, the Mutex around the wallet handle, the boundary       *)
(* operations and the PSBT detail extraction, plus the two Electrum        *)
(* configuration builders.                                                 *)
(***************************************************************************)
EXTENDS Integers, Sequences, FiniteSets, TLC

\* ------------------------------------------------------------------ bounds
\* Caller threads that use the one wallet handle.
Threads == {1, 2}
\* Total number of boundary calls issued in a behaviour.
MaxCalls == 4
\* Longest input list / output list of a PSBT handed to the extractor.
MaxPsbtLen == 2
\* Width of the unsigned amounts, scaled down from the 64 bits of u64.
WordBits == 4
\* Largest proxy port tried by the configuration specification.
MaxPort == 6

Modulus == 2 ^ WordBits

\* ------------------------------------------------------------- variables
VARIABLES
    pc,             \* per thread: position inside the boundary call it is in
    slot,           \* per thread: LAST_ERROR (NoError models None)
    lockOwner,      \* thread whose MutexGuard is alive, 0 when unlocked
    poisoned,       \* the Mutex's poison flag
    ret,            \* the call that ended last: thread, operation, value
    calls,          \* number of calls issued so far (numbers the calls)
    alive,          \* FALSE once a panic has aborted the process
    pend,           \* per thread: the failure its calls reported last, if no
                    \* wallet_last_error_message call of the thread followed
    lost,           \* per thread: the largest id among its failures that were
                    \* followed by another failure of the thread before any
                    \* wallet_last_error_message call (0 when there is none)
    cfgIn,          \* (tor_port, electrum_address) given to the two factories
    bcfg,           \* configuration built by get_electrum_blockchain_config
    ccfg,           \* configuration built by get_electrum_client
    xIn,            \* a PSBT handed to psbt_extract_details, with its source,
                    \* the failing ownership lookups and the build flavour
    xOut            \* the record psbt_extract_details made of it

chan == <<pc, slot, lockOwner, poisoned, ret, calls, alive, pend, lost>>
cfgs == <<cfgIn, bcfg, ccfg, xIn, xOut>>
vars == <<chan, cfgs>>

\* ------------------------------------------------------- error channel
\* Option<Box<dyn Error>>: None.
NoError == [id |-> 0, kind |-> "none", by |-> 0, guard |-> FALSE]

\* An error value.  id is the number of the call that failed and by the thread
\* that reported it (both identify the occurrence).  The box is type-erased
\* (dyn Error): of the type given in kind only this is kept, whether it is the
\* PoisonError<MutexGuard>, which owns the guard of the lock it failed on.
MkError(n, kind, t) ==
    [id |-> n, kind |-> IF kind = "PoisonError" THEN kind ELSE "Error", by |-> t,
     guard |-> kind = "PoisonError"]

EmptyMessage == <<>>

\* err.to_string() for a stored error.
ErrorMessage(e) == <<e.kind, e.id>>

\* update_last_error as it would be with one slot for the whole process.
update_last_error_shared(s, t, e) == [u \in Threads |-> e]

\* update_last_error as it would be if an unconsumed error were kept.
update_last_error_keep_first(s, t, e) == IF s[t] = NoError THEN [s EXCEPT ![t] = e] ELSE s

\* LAST_ERROR.with(|prev| *prev.borrow_mut() = Some(Box::new(err))) on thread t.
update_last_error(s, t, e) == [s EXCEPT ![t] = e]

\* take_last_error as it would be if it read the slot without clearing it.
take_last_error_peek(s, t) == [taken |-> s[t], after |-> s]

\* LAST_ERROR.with(|prev| prev.borrow_mut().take()) on thread t: the value
\* taken and the slot left behind.
take_last_error(s, t) == [taken |-> s[t], after |-> [s EXCEPT ![t] = NoError]]

\* The Ok arm as it would be if success reset the slot.
unwrap_or_return_ok_clears(s, t) == [s EXCEPT ![t] = NoError]

\* The Ok arm of unwrap_or_return!: the value is passed on, LAST_ERROR is not
\* touched.
unwrap_or_return_ok(s, t) == s

\* -------------------------------------------------- destination routing
\* A destination string: scheme is the "bitcoin:" prefix, addr the address
\* text (0 does not parse, 1 and 2 are two addresses),
\* pj the presence of a payjoin endpoint parameter.
Destinations == [scheme : BOOLEAN, addr : 0..2, pj : BOOLEAN]

\* payjoin::Uri::try_from(destination)
UriTryFrom(d) == [ok |-> d.scheme /\ d.addr # 0, address |-> d.addr, pj |-> d.pj]

\* uri.check_pj_supported()
CheckPjSupported(uri) == uri.pj

\* Address::from_str(destination)
AddressFromStr(d) == [ok |-> ~d.scheme /\ ~d.pj /\ d.addr # 0, address |-> d.addr]

\* The match as it would be without the check_pj_supported test.
Route_pj_unchecked(d) ==
    LET uri == UriTryFrom(d)
        a == AddressFromStr(d)
    IN  IF uri.ok
        THEN [path |-> "payjoin", address |-> uri.address]
        ELSE IF a.ok
             THEN [path |-> "plain", address |-> a.address]
             ELSE [path |-> "error", address |-> 0]

\* The match of wallet_create_psbt: which builder the destination reaches,
\* and with which address.
Route(d) ==
    LET uri == UriTryFrom(d)
        a == AddressFromStr(d)
    IN  IF uri.ok
        THEN IF CheckPjSupported(uri)
             THEN [path |-> "payjoin", address |-> uri.address]
             ELSE [path |-> "plain", address |-> uri.address]
        ELSE IF a.ok
             THEN [path |-> "plain", address |-> a.address]
             ELSE [path |-> "error", address |-> 0]

\* ------------------------------------------------------ PSBT extraction
\* A PSBT: ins is the list of inputs (some = the input carries a witness_utxo,
\* value = its amount), outs the list of outputs of the unsigned transaction
\* (mine = the script belongs to the wallet).
PsbtInputs == [some : BOOLEAN, value : {2}]
PsbtOutputs == [value : {1}, mine : BOOLEAN]

SeqsUpTo(S, n) == UNION {[1..k -> S] : k \in 1..n}

RECURSIVE SumSeq(_)
\* iter().sum() without regard to width.
SumSeq(q) == IF q = <<>> THEN 0 ELSE Head(q) + SumSeq(Tail(q))

Wrap(x) == ((x % Modulus) + Modulus) % Modulus

\* psbt_extract_details.  fail1 and fail2 are the output positions whose
\* wallet.is_mine lookup fails in the first (sent) and in the second (received)
\* pass; checks is the build's overflow-checks setting.  trap = the arithmetic
\* panicked; otherwise sent, received and fee are the u64 fields of the record
\* and inputs is inputs_value.
psbt_extract_details(psbt, fail1, fail2, checks) ==
    LET outs == psbt.outs
        IsMine(i, fail) == IF i \in fail THEN FALSE ELSE outs[i].mine
        sentRaw == SumSeq([i \in 1..Len(outs) |->
                              IF ~IsMine(i, fail1) THEN outs[i].value ELSE 0])
        receivedRaw == SumSeq([i \in 1..Len(outs) |->
                                  IF IsMine(i, fail2) THEN outs[i].value ELSE 0])
        inputsRaw == SumSeq([i \in 1..Len(psbt.ins) |->
                                IF psbt.ins[i].some THEN psbt.ins[i].value ELSE 0])
        sent == Wrap(sentRaw)
        received == Wrap(receivedRaw)
        inputs == Wrap(inputsRaw)
        overflow == \/ sentRaw >= Modulus
                    \/ receivedRaw >= Modulus
                    \/ inputsRaw >= Modulus
                    \/ inputs - sent < 0
                    \/ inputs - sent - received < 0
    IN  [trap |-> checks /\ overflow,
         sent |-> sent,
         received |-> received,
         fee |-> Wrap(inputs - sent - received),
         inputs |-> inputs]

\* Amounts a caller asks to send.
Amounts == 1..2

\* A PSBT of the wallet's own making for amount m: k witness-annotated inputs
\* (only_witness_utxo) worth 2 each, plus the receiver's input when the
\* receiver contributes extra; the recipient output, owned by the wallet or
\* not, and possibly a change output, in either order (Shuffle).
WalletPsbts(m, extra) ==
    LET change == [value |-> 1, mine |-> TRUE]
        outs == UNION {{<<r>>, <<r, change>>, <<change, r>>} :
                          r \in [value : {m + extra}, mine : BOOLEAN]}
        ins == {[i \in 1..k |-> [some |-> TRUE, value |-> 2]] :
                   k \in (IF extra = 0 THEN 1 ELSE 2)..MaxPsbtLen}
    IN  {p \in [ins : ins, outs : outs] :
            SumSeq([i \in 1..Len(p.outs) |-> p.outs[i].value]) <= 2 * Len(p.ins)}

\* What builder.finish() can hand back.
BuiltPsbts(m) == WalletPsbts(m, 0)

\* What ctx.process_response() can hand back: the original with one more
\* input, contributed by the receiver, and the recipient output raised by it.
PayjoinPsbts(m) == WalletPsbts(m, 2)

\* What deserialize + finalize can hand back for external input.
DecodedPsbts == [ins : SeqsUpTo(PsbtInputs, MaxPsbtLen), outs : SeqsUpTo(PsbtOutputs, MaxPsbtLen)]

\* All records psbt_extract_details can produce for the PSBTs of a set, over
\* every pattern of failing ownership lookups and both build flavours.
ExtractAll(P) ==
    {psbt_extract_details(p, f1, f2, c) :
        p \in P, f1 \in SUBSET (1..MaxPsbtLen), f2 \in SUBSET (1..MaxPsbtLen),
        c \in BOOLEAN}

\* Whether the extraction can trap (TRUE) and can complete (FALSE) for the
\* PSBTs of a set.
Traps(P) == {x.trap : x \in ExtractAll(P)}

BuildResults == [m \in Amounts |-> Traps(BuiltPsbts(m))]
PayjoinResults == [m \in Amounts |-> Traps(PayjoinPsbts(m))]
DecodeResults == Traps(DecodedPsbts)

\* ------------------------------------------------------------ the calls
NoDest == [scheme |-> FALSE, addr |-> 0, pj |-> FALSE]
\* Where a thread is: at is the step, op the operation, n the number of the
\* call, dest and amount the arguments of wallet_create_psbt, address the
\* address handed to the builder it chose.
At(at, op, n, d, a) == [at |-> at, op |-> op, n |-> n, dest |-> d, amount |-> a, address |-> 0]
Idle == At("idle", "none", 0, NoDest, 0)
Dead == At("dead", "none", 0, NoDest, 0)
Stuck == At("deadlock", "none", 0, NoDest, 0)

\* A returned value of thread t's call number n.  out is "ok" for a populated
\* result, "sentinel" for the operation's failure value (false, -1.0, the
\* all-null record, the zero/null record, the empty string) and "panic" when
\* the call never returned, with the panicking expression in why.
Returned(t, op, n, out) ==
    [t |-> t, op |-> op, n |-> n, out |-> out, msg |-> EmptyMessage, why |-> "none"]

NoReturn == Returned(0, "none", 0, "none")

\* Thread t is between calls and may issue one.
Begin(t) == alive /\ pc[t].at = "idle" /\ calls < MaxCalls

\* Thread t is inside operation op, at step at, holding the guard.
Inside(t, op, at) == alive /\ pc[t].at = at /\ pc[t].op = op

\* Thread t holds the MutexGuard on its stack.
HoldsGuard(t) == pc[t].at \notin {"idle", "dead", "deadlock"}

\* The lock after the slots went from slot to s and thread t left the call:
\* the guard on t's stack is dropped, a guard owned by a replaced or taken
\* PoisonError is dropped with it, a guard owned by a new one stays alive.
LockAfter(t, s) ==
    IF s[t].guard /\ s[t] # slot[t] THEN t
    ELSE IF HoldsGuard(t) THEN 0
    ELSE IF \E u \in Threads : slot[u].guard /\ s[u] # slot[u] /\ lockOwner = u THEN 0
    ELSE lockOwner

\* The call of thread t returns r, leaving the slots as s; e is the failure
\* it reports (NoError when it reports none).
Finish(t, n, r, s, e) ==
    /\ pc' = [pc EXCEPT ![t] = Idle]
    /\ ret' = r
    /\ slot' = s
    /\ lockOwner' = LockAfter(t, s)
    /\ calls' = IF HoldsGuard(t) THEN calls ELSE calls + 1
    /\ pend' = [pend EXCEPT ![t] = IF r.op = "last_error_message" THEN NoError
                                   ELSE IF e # NoError THEN e ELSE @]
    /\ lost' = [lost EXCEPT ![t] = IF e # NoError /\ pend[t] # NoError
                                   THEN pend[t].id ELSE @]
    /\ UNCHANGED <<poisoned, alive, cfgs>>

\* Ok(x) => x, down to the successful return of r.
ReturnOk(t, n, r) == Finish(t, n, r, unwrap_or_return_ok(slot, t), NoError)

\* Err(e) => { update_last_error(e); return $b; }
unwrap_or_return(t, op, n, kind) ==
    Finish(t, n, Returned(t, op, n, "sentinel"),
           update_last_error(slot, t, MkError(n, kind, t)), MkError(n, kind, t))

\* A failure value returned without update_last_error.
ReturnSilent(t, op, n) == Finish(t, n, Returned(t, op, n, "sentinel"), slot, NoError)

\* unwrap()/expect() on an Err, or an arithmetic trap, inside an extern "C"
\* function: the process aborts, or the panic unwinds out of the call and
\* ends the thread; unwinding drops the guard on the stack and poisons the
\* Mutex.
Panic(t, op, n, why) ==
    /\ pc' = [pc EXCEPT ![t] = Dead]
    /\ ret' = [Returned(t, op, n, "panic") EXCEPT !.why = why]
    /\ calls' = IF HoldsGuard(t) THEN calls ELSE calls + 1
    /\ \/ /\ alive' = FALSE
          /\ UNCHANGED <<lockOwner, poisoned>>
       \/ /\ alive' = alive
          /\ lockOwner' = IF HoldsGuard(t) THEN 0 ELSE lockOwner
          /\ poisoned' = (poisoned \/ HoldsGuard(t))
    /\ UNCHANGED <<slot, pend, lost, cfgs>>

\* wallet_last_error_message
wallet_last_error_message(t) ==
    /\ Begin(t)
    /\ LET r == take_last_error(slot, t)
           m == IF r.taken = NoError THEN EmptyMessage ELSE ErrorMessage(r.taken)
       IN  Finish(t, calls + 1,
                  [Returned(t, "last_error_message", calls + 1, "ok") EXCEPT !.msg = m],
                  r.after, NoError)

\* wallet_get_fee_rate
wallet_get_fee_rate(t) ==
    /\ Begin(t)
    /\ \E outcome \in {"utf8", "client", "estimate", "ok"} :
          CASE outcome = "utf8" -> Panic(t, "get_fee_rate", calls + 1, "to_str")
            [] outcome = "client" ->
                  unwrap_or_return(t, "get_fee_rate", calls + 1, "electrum_client::Error")
            [] outcome = "estimate" -> ReturnSilent(t, "get_fee_rate", calls + 1)
            [] OTHER -> ReturnOk(t, calls + 1, Returned(t, "get_fee_rate", calls + 1, "ok"))

\* wallet_get_server_features
wallet_get_server_features(t) ==
    /\ Begin(t)
    /\ \E outcome \in {"utf8", "client", "features", "ok"} :
          CASE outcome = "utf8" -> Panic(t, "get_server_features", calls + 1, "to_str")
            [] outcome \in {"client", "features"} ->
                  unwrap_or_return(t, "get_server_features", calls + 1, "electrum_client::Error")
            [] OTHER -> ReturnOk(t, calls + 1, Returned(t, "get_server_features", calls + 1, "ok"))

\* wallet_broadcast_tx
wallet_broadcast_tx(t) ==
    /\ Begin(t)
    /\ \E outcome \in {"Utf8Error", "electrum_client::Error", "FromHexError",
                       "encode::Error", "ok"} :
          IF outcome = "ok"
          THEN ReturnOk(t, calls + 1, Returned(t, "broadcast_tx", calls + 1, "ok"))
          ELSE unwrap_or_return(t, "broadcast_tx", calls + 1, outcome)

\* get_wallet_mutex(wallet).lock() returns Ok(guard): the Mutex is free and
\* not poisoned (lock() blocks while another guard is alive).
Enter(t, op, at, d, a) ==
    /\ lockOwner = 0
    /\ ~poisoned
    /\ lockOwner' = t
    /\ pc' = [pc EXCEPT ![t] = At(at, op, calls + 1, d, a)]
    /\ calls' = calls + 1
    /\ UNCHANGED <<slot, poisoned, ret, alive, pend, lost, cfgs>>

\* lock() by the thread whose own LAST_ERROR still owns the guard: std leaves
\* it unspecified, the call never returns (deadlock) or panics.
Relock(t, op) ==
    /\ lockOwner = t
    /\ \/ /\ pc' = [pc EXCEPT ![t] = Stuck]
          /\ calls' = calls + 1
          /\ UNCHANGED <<slot, lockOwner, poisoned, ret, alive, pend, lost, cfgs>>
       \/ Panic(t, op, calls + 1, "relock")

\* unwrap_or_return!(get_wallet_mutex(wallet).lock(), sentinel)
LockOrReturn(t, op, d, a) ==
    \/ Enter(t, op, "locked", d, a)
    \/ lockOwner = 0 /\ poisoned /\ unwrap_or_return(t, op, calls + 1, "PoisonError")
    \/ Relock(t, op)

\* get_wallet_mutex(wallet).lock().unwrap()
LockOrPanic(t, op) ==
    \/ Enter(t, op, "locked", NoDest, 0)
    \/ lockOwner = 0 /\ poisoned /\ Panic(t, op, calls + 1, "lock")
    \/ Relock(t, op)

\* wallet_get_balance: line 289
wallet_get_balance_lock(t) == Begin(t) /\ LockOrPanic(t, "get_balance")

\* wallet_get_balance: lines 290-291
wallet_get_balance(t) ==
    /\ Inside(t, "get_balance", "locked")
    /\ \/ Panic(t, "get_balance", pc[t].n, "unwrap")
       \/ ReturnOk(t, calls, Returned(t, "get_balance", pc[t].n, "ok"))

\* wallet_get_address: line 188
wallet_get_address_lock(t) == Begin(t) /\ LockOrPanic(t, "get_address")

\* wallet_get_address: lines 190-195
wallet_get_address(t) ==
    /\ Inside(t, "get_address", "locked")
    /\ \/ Panic(t, "get_address", pc[t].n, "unwrap")
       \/ ReturnOk(t, calls, Returned(t, "get_address", pc[t].n, "ok"))

\* wallet_get_transactions: line 358
wallet_get_transactions_lock(t) == Begin(t) /\ LockOrPanic(t, "get_transactions")

\* wallet_get_transactions: lines 360-400
wallet_get_transactions(t) ==
    /\ Inside(t, "get_transactions", "locked")
    /\ \/ Panic(t, "get_transactions", pc[t].n, "unwrap")
       \/ ReturnOk(t, calls, Returned(t, "get_transactions", pc[t].n, "ok"))

\* wallet_validate_address: line 615
wallet_validate_address_lock(t) == Begin(t) /\ LockOrReturn(t, "validate_address", NoDest, 0)

\* wallet_validate_address: lines 617-620
wallet_validate_address(t) ==
    /\ Inside(t, "validate_address", "locked")
    /\ \E outcome \in {"utf8", "true", "false"} :
          IF outcome = "utf8"
          THEN Panic(t, "validate_address", pc[t].n, "to_str")
          ELSE ReturnOk(t, calls, Returned(t, "validate_address", pc[t].n, "ok"))

\* wallet_sync: line 204
wallet_sync_lock(t) == Begin(t) /\ LockOrReturn(t, "sync", NoDest, 0)

\* wallet_sync: lines 206-215
wallet_sync(t) ==
    /\ Inside(t, "sync", "locked")
    /\ \E outcome \in {"Utf8Error", "bdk::Error", "ok"} :
          IF outcome = "ok"
          THEN ReturnOk(t, calls, Returned(t, "sync", pc[t].n, "ok"))
          ELSE unwrap_or_return(t, "sync", pc[t].n, outcome)

\* wallet_create_psbt: line 459
wallet_create_psbt_lock(t) ==
    /\ Begin(t)
    /\ \E d \in Destinations, a \in Amounts : LockOrReturn(t, "create_psbt", d, a)

\* The call moves on to step at, still inside, with address a for the builder.
Goto(t, at, a) ==
    /\ pc' = [pc EXCEPT ![t].at = at, ![t].address = a]
    /\ UNCHANGED <<slot, lockOwner, poisoned, ret, calls, alive, pend, lost, cfgs>>

\* wallet_create_psbt: lines 460-482, up to the call of a builder
wallet_create_psbt(t) ==
    /\ Inside(t, "create_psbt", "locked")
    /\ \/ Panic(t, "create_psbt", pc[t].n, "to_str")
       \/ LET r == Route(pc[t].dest)
          IN  CASE r.path = "payjoin" -> Goto(t, "payjoin", r.address)
                [] r.path = "plain" -> Goto(t, "plain", r.address)
                [] OTHER -> unwrap_or_return(t, "create_psbt", pc[t].n, "address::Error")

\* psbt_extract_details ends the call: with the populated record, or with a
\* panic when its arithmetic trapped (x).
ReturnDetails(t, op, x) ==
    IF x
    THEN Panic(t, op, pc[t].n, "overflow")
    ELSE ReturnOk(t, calls, Returned(t, op, pc[t].n, "ok"))

\* create_transaction
create_transaction(t) ==
    /\ Inside(t, "create_psbt", "plain")
    /\ \/ unwrap_or_return(t, "create_psbt", pc[t].n, "bdk::Error")
       \/ \E x \in BuildResults[pc[t].amount] : ReturnDetails(t, "create_psbt", x)

\* create_payjoin: lines 501-509, builder.finish().expect(..)
create_payjoin_build(t) ==
    /\ Inside(t, "create_psbt", "payjoin")
    /\ \/ Panic(t, "create_psbt", pc[t].n, "build")
       \/ Goto(t, "pj_request", pc[t].address)

\* create_payjoin: lines 512-513, create_pj_request(..).expect(..)
create_payjoin_request(t) ==
    /\ Inside(t, "create_psbt", "pj_request")
    /\ \/ Panic(t, "create_psbt", pc[t].n, "request")
       \/ Goto(t, "pj_exchange", pc[t].address)

\* create_payjoin: lines 515-520, the blocking POST, .expect(..)
create_payjoin_exchange(t) ==
    /\ Inside(t, "create_psbt", "pj_exchange")
    /\ \/ Panic(t, "create_psbt", pc[t].n, "exchange")
       \/ Goto(t, "pj_reconcile", pc[t].address)

\* create_payjoin: lines 522-523, process_response(..).unwrap() and extraction
create_payjoin_reconcile(t) ==
    /\ Inside(t, "create_psbt", "pj_reconcile")
    /\ \/ Panic(t, "create_psbt", pc[t].n, "reconcile")
       \/ \E x \in PayjoinResults[pc[t].amount] : ReturnDetails(t, "create_psbt", x)

\* wallet_decode_psbt: line 567
wallet_decode_psbt_lock(t) == Begin(t) /\ LockOrReturn(t, "decode_psbt", NoDest, 0)

\* wallet_decode_psbt: lines 568-583
wallet_decode_psbt(t) ==
    /\ Inside(t, "decode_psbt", "locked")
    /\ \E outcome \in {"utf8", "base64::DecodeError", "encode::Error", "finalize", "ok"} :
          CASE outcome = "utf8" -> Panic(t, "decode_psbt", pc[t].n, "to_str")
            [] outcome = "finalize" -> Panic(t, "decode_psbt", pc[t].n, "finalize")
            [] outcome \in {"base64::DecodeError", "encode::Error"} ->
                  unwrap_or_return(t, "decode_psbt", pc[t].n, outcome)
            [] OTHER -> \E x \in DecodeResults : ReturnDetails(t, "decode_psbt", x)

\* ------------------------------------------------------- specification
InitChan ==
    /\ pc = [t \in Threads |-> Idle]
    /\ slot = [t \in Threads |-> NoError]
    /\ lockOwner = 0
    /\ poisoned = FALSE
    /\ ret = NoReturn
    /\ calls = 0
    /\ alive = TRUE
    /\ pend = [t \in Threads |-> NoError]
    /\ lost = [t \in Threads |-> 0]

NoConfig == <<>>
NoPsbt == [src |-> "none", psbt |-> [ins |-> <<>>, outs |-> <<>>], fail1 |-> {},
           fail2 |-> {}, checks |-> FALSE]

InitCfgNone == cfgIn = <<0, 0>> /\ bcfg = NoConfig /\ ccfg = NoConfig
InitExtractNone == xIn = NoPsbt /\ xOut = <<>>

Init == InitChan /\ InitCfgNone /\ InitExtractNone

Next ==
    \E t \in Threads :
        \/ wallet_last_error_message(t)
        \/ wallet_get_fee_rate(t)
        \/ wallet_get_server_features(t)
        \/ wallet_broadcast_tx(t)
        \/ wallet_get_balance_lock(t)
        \/ wallet_get_balance(t)
        \/ wallet_get_address_lock(t)
        \/ wallet_get_address(t)
        \/ wallet_get_transactions_lock(t)
        \/ wallet_get_transactions(t)
        \/ wallet_validate_address_lock(t)
        \/ wallet_validate_address(t)
        \/ wallet_sync_lock(t)
        \/ wallet_sync(t)
        \/ wallet_create_psbt_lock(t)
        \/ wallet_create_psbt(t)
        \/ create_transaction(t)
        \/ create_payjoin_build(t)
        \/ create_payjoin_request(t)
        \/ create_payjoin_exchange(t)
        \/ create_payjoin_reconcile(t)
        \/ wallet_decode_psbt_lock(t)
        \/ wallet_decode_psbt(t)

Spec == Init /\ [][Next]_vars

\* ------------------------------------- the extractor on its own inputs
PsbtSources ==
    [src : {"built"}, psbt : UNION {BuiltPsbts(m) : m \in Amounts}]
    \cup [src : {"payjoin"}, psbt : UNION {PayjoinPsbts(m) : m \in Amounts}]
    \cup [src : {"decoded"}, psbt : DecodedPsbts]

InitExtract ==
    /\ InitChan
    /\ InitCfgNone
    /\ \E p \in PsbtSources, f1 \in SUBSET (1..MaxPsbtLen), f2 \in SUBSET (1..MaxPsbtLen),
          c \in BOOLEAN :
          xIn = [src |-> p.src, psbt |-> p.psbt, fail1 |-> f1, fail2 |-> f2, checks |-> c]
    /\ xOut = <<>>

\* psbt_extract_details, called from src
Extract(src) ==
    /\ xIn.src = src
    /\ xOut = <<>>
    /\ xOut' = <<psbt_extract_details(xIn.psbt, xIn.fail1, xIn.fail2, xIn.checks)>>
    /\ UNCHANGED <<chan, cfgIn, bcfg, ccfg, xIn>>

\* create_transaction: line 545
ExtractBuilt == Extract("built")
\* create_payjoin: line 523
ExtractPayjoin == Extract("payjoin")
\* wallet_decode_psbt: line 577
ExtractDecoded == Extract("decoded")

NextExtract == ExtractBuilt \/ ExtractPayjoin \/ ExtractDecoded

SpecExtract == InitExtract /\ [][NextExtract]_vars

\* --------------------------------------- the two configuration builders
\* Option<T>: None is <<>>, Some(x) is <<x>>.
\* "127.0.0.1:".to_owned() + &tor_port.to_string()
LoopbackAt(tor_port) == <<"127.0.0.1:", tor_port>>

\* get_electrum_blockchain_config
get_electrum_blockchain_config(tor_port, electrum_address) ==
    IF tor_port > 0
    THEN [url |-> electrum_address, socks5 |-> <<LoopbackAt(tor_port)>>, retry |-> 0,
          timeout |-> <<>>, stop_gap |-> 50, validate_domain |-> FALSE]
    ELSE [url |-> electrum_address, socks5 |-> <<>>, retry |-> 0,
          timeout |-> <<5>>, stop_gap |-> 50, validate_domain |-> FALSE]

\* ConfigBuilder::new(): the electrum_client defaults, which every field the
\* builder chain does not set keeps.
ConfigBuilderNew == [socks5 |-> <<>>, timeout |-> <<>>, retry |-> 1, validate_domain |-> TRUE]

\* get_electrum_client: the Config handed to Client::from_config, with its url
get_electrum_client(tor_port, electrum_address) ==
    IF tor_port > 0
    THEN [url |-> electrum_address,
          config |-> [ConfigBuilderNew EXCEPT
                         !.validate_domain = FALSE,
                         !.socks5 = <<[addr |-> LoopbackAt(tor_port), credentials |-> <<>>]>>]]
    ELSE [url |-> electrum_address,
          config |-> [ConfigBuilderNew EXCEPT
                         !.validate_domain = FALSE,
                         !.socks5 = <<>>,
                         !.timeout = <<5>>]]

ElectrumAddresses == {"ssl://a:50002", "tcp://b:50001", "c.onion:50001"}
TorPorts == (0 - 2)..MaxPort

InitCfg ==
    /\ InitChan
    /\ InitExtractNone
    /\ cfgIn \in TorPorts \X ElectrumAddresses
    /\ bcfg = NoConfig
    /\ ccfg = NoConfig

\* get_electrum_blockchain: line 255
BuildBlockchainConfig ==
    /\ bcfg = NoConfig
    /\ bcfg' = <<get_electrum_blockchain_config(cfgIn[1], cfgIn[2])>>
    /\ UNCHANGED <<chan, cfgIn, ccfg, xIn, xOut>>

\* get_electrum_client: lines 263-282
BuildClientConfig ==
    /\ ccfg = NoConfig
    /\ ccfg' = <<get_electrum_client(cfgIn[1], cfgIn[2])>>
    /\ UNCHANGED <<chan, cfgIn, bcfg, xIn, xOut>>

NextCfg == BuildBlockchainConfig \/ BuildClientConfig

SpecCfg == InitCfg /\ [][NextCfg]_vars

\* =============================================================== claims
\* A call of thread t ends in this step.
Ends(t) == ret'.n # ret.n /\ ret'.t = t

IsTake(r) == r.op = "last_error_message"

PsbtOps == {"create_psbt", "decode_psbt"}
FallibleOps == {"sync", "get_fee_rate", "get_server_features", "create_psbt",
                "decode_psbt", "broadcast_tx"}

\* C1: a build-transaction or decode-and-finalize call given valid text
\* always ends either with a populated record or with the zero/null record
\* and its failure stored in the caller's error slot; no failure of a payjoin
\* step or of the finalization panics.  (Panics of the text conversion, of the
\* lock and of the fee arithmetic are set aside here; C8 covers the last.)
C1_TwoOutcomes ==
    (ret.op \in PsbtOps /\ ret.why \notin {"to_str", "relock", "overflow"}) =>
        \/ ret.out = "ok"
        \/ ret.out = "sentinel" /\ slot[ret.t].id = ret.n

\* C2: whenever a fallible operation returns its failure value, the caller's
\* error slot holds the error of that very call.
C2_ReportBeforeSentinel ==
    (ret.op \in FallibleOps /\ ret.out = "sentinel") =>
        (slot[ret.t] # NoError /\ slot[ret.t].id = ret.n)

\* C3: wallet_last_error_message returns the message of the failure the thread
\* reported last and has not read yet, or the empty string when there is none,
\* and leaves the slot empty; so a second call right after it returns the
\* empty string.
C3_TakeConsumes ==
    [][\A t \in Threads :
          (Ends(t) /\ IsTake(ret')) =>
              /\ ret'.msg = IF pend[t] = NoError THEN EmptyMessage ELSE ErrorMessage(pend[t])
              /\ slot'[t] = NoError
              /\ (IsTake(ret) /\ ret.t = t) => ret'.msg = EmptyMessage]_vars

C3_Witness ==
    IsTake(ret) /\ ret.msg # EmptyMessage /\ slot[ret.t] = NoError /\ pend[ret.t] = NoError

\* C4: the slot of a thread holds exactly the failure the thread reported last
\* and has not read yet (a later failure replaces an earlier one), and no
\* message of a replaced failure is ever returned.
C4_Overwrite ==
    /\ \A t \in Threads : slot[t] = pend[t]
    /\ (IsTake(ret) /\ ret.msg # EmptyMessage) => ret.msg[2] > lost[ret.t]

C4_Witness ==
    /\ IsTake(ret)
    /\ ret.msg # EmptyMessage
    /\ lost[ret.t] > 0
    /\ ret.msg[2] > lost[ret.t]
    /\ slot[ret.t] = NoError

PayjoinSteps == {"build", "request", "exchange", "reconcile"}

\* C5: no two calls are inside the wallet at once, and once a call on the
\* handle has ended, also by a failure inside the payjoin exchange, the Mutex
\* is free and usable, so that a later call on the handle acquires it and
\* runs normally.
C5_LockReleased ==
    /\ Cardinality({t \in Threads : HoldsGuard(t)}) <= 1
    /\ (alive /\ ret.why \in PayjoinSteps) => (lockOwner = 0 /\ ~poisoned)

\* C6: a step changes the error slot of a thread only when it ends a call of
\* that thread, a slot only ever holds an error reported by its own thread,
\* and wallet_last_error_message returns only such an error.
C6_ThreadScoped ==
    [][\A u \in Threads :
          /\ slot'[u] # slot[u] => Ends(u)
          /\ slot'[u].by \in {0, u}
          /\ (Ends(u) /\ IsTake(ret') /\ ret'.msg # EmptyMessage) =>
                 (slot[u].by = u /\ ret'.msg = ErrorMessage(slot[u]))]_vars

C6_Witness ==
    /\ slot[1] # NoError
    /\ slot[2] # NoError
    /\ slot[1].by = 1
    /\ slot[2].by = 2
    /\ slot[2].id > slot[1].id

\* C7: past the lock, wallet_create_psbt sends a payjoin URI with payjoin
\* support to create_payjoin, a URI without it and a bare address to
\* create_transaction with the parsed address, and anything else back to the
\* caller with the zero/null record and a reported error.
C7_Routing ==
    [][\A t \in Threads :
          (pc[t].op = "create_psbt" /\ pc[t].at = "locked" /\ pc'[t] # pc[t] /\ pc'[t] # Dead) =>
              LET d == pc[t].dest
                  uri == UriTryFrom(d)
                  a == AddressFromStr(d)
              IN  /\ (uri.ok /\ CheckPjSupported(uri)) =>
                         (pc'[t].at = "payjoin" /\ pc'[t].address = uri.address)
                  /\ (uri.ok /\ ~CheckPjSupported(uri)) =>
                         (pc'[t].at = "plain" /\ pc'[t].address = uri.address)
                  /\ (~uri.ok /\ a.ok) =>
                         (pc'[t].at = "plain" /\ pc'[t].address = a.address)
                  /\ (~uri.ok /\ ~a.ok) =>
                         /\ pc'[t] = Idle
                         /\ ret' = Returned(t, "create_psbt", pc[t].n, "sentinel")
                         /\ slot'[t].id = pc[t].n]_vars

C7_Witness ==
    \E t \in Threads :
        /\ pc[t].at = "plain"
        /\ pc[t].dest.scheme
        /\ ~pc[t].dest.pj
        /\ pc[t].address = 2

\* C8: every record the extractor makes satisfies
\* fee = inputs_value - sent - received with sent + received <= inputs_value,
\* and its arithmetic neither wraps nor traps.
C8_FeeInvariant ==
    xOut # <<>> =>
        /\ ~xOut[1].trap
        /\ xOut[1].sent + xOut[1].received <= xOut[1].inputs
        /\ xOut[1].fee = xOut[1].inputs - xOut[1].sent - xOut[1].received

\* C9: for the same (address, port) the two configurations agree on the mode
\* (direct for a port <= 0, proxied through the loopback port otherwise) and
\* on every field they share: proxy, timeout, domain validation, retry count.
C9_ConfigsAgree ==
    (bcfg # NoConfig /\ ccfg # NoConfig) =>
        LET b == bcfg[1]
            c == ccfg[1].config
            proxy == IF c.socks5 = <<>> THEN <<>> ELSE <<c.socks5[1].addr>>
        IN  /\ (cfgIn[1] <= 0) => (b.socks5 = <<>> /\ b.timeout = <<5>>)
            /\ (cfgIn[1] > 0) => (b.socks5 = <<LoopbackAt(cfgIn[1])>> /\ b.timeout = <<>>)
            /\ b.url = ccfg[1].url
            /\ b.socks5 = proxy
            /\ b.timeout = c.timeout
            /\ b.validate_domain = c.validate_domain
            /\ b.retry = c.retry

\* C10: a call that ends successfully, other than wallet_last_error_message,
\* leaves the caller's slot as it was; a slot changes only when a call of its
\* thread ends with a reported failure or is wallet_last_error_message.
C10_SuccessKeepsSlot ==
    [][\A t \in Threads :
          /\ (Ends(t) /\ ret'.out = "ok" /\ ~IsTake(ret')) => slot'[t] = slot[t]
          /\ slot'[t] # slot[t] =>
                 (Ends(t) /\ (IsTake(ret') \/ ret'.out = "sentinel"))]_vars

C10_Witness ==
    /\ ret.out = "ok"
    /\ ~IsTake(ret)
    /\ ret.t \in Threads
    /\ slot[ret.t] # NoError
    /\ slot[ret.t].id < ret.n

====
